---------------------------- MODULE Spec2Model ----------------------------
(***************************************************************************)
(* Model of the confirmed-native "extra" deposit worker                    *)
(* (src/confirmed-native-extra-solution-2.ts): runScanByOrderId, the       *)
(* per-order task callback with its page loop, the pMap fan-out over a     *)
(* page's candidates, and scanTxid, which credits a sweep transaction.     *)
(*                                                                         *)
(* External collaborators (explorer, node, order table, deposit service)   *)
(* are modelled by what the worker sends them and what they answer:        *)
(*   - the chain and the order table are fixed data (Ledger, Orders);      *)
(*   - the explorer answers txlist queries over the ledger, honouring      *)
(*     startblock, page, offset and sort=desc;                             *)
(*   - the deposit service applies a deposit at most once per uniqueId.    *)
(* Strings whose content the code inspects (addresses, decimal amounts)    *)
(* are sequences of one-character strings.                                 *)
(***************************************************************************)
EXTENDS Integers, Sequences, FiniteSets, TLC

VARIABLES
    world,               \* which fixed chain/explorer data set is in force
    etherscanApiKey,     \* config.etherscanApiKey is set
    axiosResolvesList,   \* what the promise of axios.get resolves with (see Resolved)
    worker,              \* position of runScanByOrderId: "init", "stopped", "running"
    orderTable,          \* the rows of the Order table
    scans,               \* per task: the callback invocation of queue.run
    deposits,            \* deposit records held by the deposit service
    creditCalls,         \* history: maybeInternalCreateDeposit calls issued
    nodeCalls,           \* history: nodeProvider calls issued
    failures             \* number of injected I/O failures so far

vars == <<world, etherscanApiKey, axiosResolvesList, worker, orderTable, scans,
          deposits, creditCalls, nodeCalls, failures>>

---------------------------------------------------------------------------
(* Bounds of the model *)

\* number of tasks the queue delivers in one behaviour
MaxScans == 2

\* number of I/O failures (explorer, node) injected in one behaviour
MaxFailures == 1

---------------------------------------------------------------------------
(* Program constants *)

\* const pageSize = 100
pageSize == 100

\* txs.slice(0, 10)
CandidateCap == 10

\* ethers.utils.formatEther: 18 decimals
EtherDecimals == 18

---------------------------------------------------------------------------
(* Strings, numbers and their conversions *)

Null == <<>>          \* null / undefined for string-valued fields
Undefined == -1       \* undefined for number-valued fields

DigitChars == <<"0", "1", "2", "3", "4", "5", "6", "7", "8", "9">>

IsDigit(c) == \E d \in 1..10 : DigitChars[d] = c

DigitValue(c) == (CHOOSE d \in 1..10 : DigitChars[d] = c) - 1

\* String.prototype.toLowerCase on the characters addresses are made of
LowerChar(c) ==
    CASE c = "A" -> "a" [] c = "B" -> "b" [] c = "C" -> "c"
      [] c = "D" -> "d" [] c = "E" -> "e" [] c = "F" -> "f"
      [] OTHER -> c

toLowerCase(s) == [i \in DOMAIN s |-> LowerChar(s[i])]

RECURSIVE DecimalValue(_)
DecimalValue(s) ==
    IF s = <<>> THEN 0
    ELSE 10 * DecimalValue(SubSeq(s, 1, Len(s) - 1)) + DigitValue(s[Len(s)])

\* ethers.BigNumber.from(string): a decimal string /^-?[0-9]+$/ is parsed,
\* any other text throws (hex strings are not part of the data sets).
BigNumberFrom(s) ==
    LET body == IF s # <<>> /\ s[1] = "-" THEN Tail(s) ELSE s
        neg  == s # <<>> /\ s[1] = "-"
    IN  IF body # <<>> /\ \A i \in DOMAIN body : IsDigit(body[i])
        THEN [ok |-> TRUE,
              val |-> IF neg THEN 0 - DecimalValue(body) ELSE DecimalValue(body)]
        ELSE [ok |-> FALSE, val |-> 0]

RECURSIVE Decimal(_)
\* BigNumber.toString(): the decimal digits of a natural number
Decimal(n) ==
    IF n < 10 THEN <<DigitChars[n + 1]>>
    ELSE Decimal(n \div 10) \o <<DigitChars[(n % 10) + 1]>>

RECURSIVE Zeros(_)
Zeros(k) == IF k <= 0 THEN <<>> ELSE <<"0">> \o Zeros(k - 1)

RECURSIVE StripTrailingZeros(_)
StripTrailingZeros(s) ==
    IF Len(s) > 1 /\ s[Len(s)] = "0"
    THEN StripTrailingZeros(SubSeq(s, 1, Len(s) - 1))
    ELSE s

\* ethers.utils.formatEther(wei): whole "." fraction, the fraction padded to
\* 18 digits and then stripped of trailing zeros (one digit is kept).
formatEther(wei) ==
    LET d     == Decimal(wei)
        whole == IF Len(d) > EtherDecimals
                 THEN SubSeq(d, 1, Len(d) - EtherDecimals) ELSE <<"0">>
        frac  == IF Len(d) > EtherDecimals
                 THEN SubSeq(d, Len(d) - EtherDecimals + 1, Len(d))
                 ELSE Zeros(EtherDecimals - Len(d)) \o d
    IN  whole \o <<".">> \o StripTrailingZeros(frac)

---------------------------------------------------------------------------
(* Configuration: context.nativeMethod, config.evmAccount *)

nativeMethod == [id |-> "ethereum", asset |-> "ETH"]

depositMethodId == nativeMethod.id

\* config.evmAccount, the sweep account, as configured (lower case)
account == <<"0", "x", "c", "3">>

\* the same account as the node spells it (checksum case)
AccountOnChain == <<"0", "x", "C", "3">>

AddrA == <<"0", "x", "A", "1">>
AddrB == <<"0", "x", "B", "2">>
AddrD == <<"0", "x", "D", "4">>
AddrOther == <<"0", "x", "E", "5">>

---------------------------------------------------------------------------
(* The order table (TypeORM entity Order).  createdAt is in milliseconds.  *)
(* Order 1 holds deposit address A from the start.  Order 2 is created     *)
(* later, and address A is re-assigned to it (order 1 loses it).  Order 4  *)
(* belongs to another deposit method.                                      *)

InitialOrders ==
    { [id |-> 1, depositMethod |-> "ethereum", depositAddress |-> AddrA,
       createdAt |-> 10500, createdAtBlockNumber |-> 1],
      [id |-> 3, depositMethod |-> "ethereum", depositAddress |-> AddrB,
       createdAt |-> 10500, createdAtBlockNumber |-> 1],
      [id |-> 4, depositMethod |-> "bitcoin", depositAddress |-> AddrD,
       createdAt |-> 10500, createdAtBlockNumber |-> 1],
      [id |-> 5, depositMethod |-> "ethereum", depositAddress |-> AddrOther,
       createdAt |-> 10500, createdAtBlockNumber |-> 1] }

\* the order that takes over deposit address A
Order2 ==
    [id |-> 2, depositMethod |-> "ethereum", depositAddress |-> AddrA,
     createdAt |-> 30000, createdAtBlockNumber |-> 2]

\* order ids the task queue can carry
OrderIds == {1, 2, 3, 4, 5}

NoOrder ==
    [id |-> 0, depositMethod |-> "", depositAddress |-> Null,
     createdAt |-> 0, createdAtBlockNumber |-> 0]

\* db.getRepository(Order).findOneBy({ id: orderId })
findOneBy(orderId) ==
    IF \E o \in orderTable : o.id = orderId
    THEN CHOOSE o \in orderTable : o.id = orderId
    ELSE NoOrder

\* faulty variant: the query leaves out the condition on the deposit address
fetchOrderAnyAddress(address) ==
    {o \in orderTable : o.depositMethod = depositMethodId /\ o.depositAddress # Null}

\* the rows the query of fetchOrderForAddress matches; getOne() returns one
\* of them (the query has no ORDER BY), or undefined when there is none
fetchOrderForAddress(address) ==
    {o \in orderTable : o.depositMethod = depositMethodId /\ o.depositAddress = address}

---------------------------------------------------------------------------
(* The chain: blocks and transactions, as the node and the explorer see    *)
(* them.  Block timestamps are in seconds.                                 *)

BlockTimestamp(n) == CASE n = 1 -> 8 [] n = 2 -> 20 [] OTHER -> 40

\* A mined legacy transfer as the node returns it; `listed` is the value
\* string the explorer lists for it, `listedBlock` the block it indexes it in.
Tx(hash, from, to, value, block) ==
    [hash |-> hash, from |-> from, to |-> to, value |-> value,
     gasPrice |-> 2, gasLimit |-> 3,
     blockNumber |-> block, blockHash |-> <<"b", Decimal(block)[1]>>,
     onNode |-> TRUE, listed |-> Decimal(value), listedBlock |-> block]

\* a zero-value transaction of address A (noise in the account's history)
Filler(i, block) == Tx("f" \o ToString(i), AddrA, AccountOnChain, 0, block)

Fillers(lo, hi, block) == [k \in 1..(hi - lo + 1) |-> Filler(lo + k - 1, block)]

\* transactions of address B, the same in every world: tE pays an
\* EIP-1559 fee (the node reports no gasPrice), tV is a legacy sweep
LedgerCommon ==
    << [Tx("tE", AddrB, AccountOnChain, 4, 2) EXCEPT !.gasPrice = Undefined],
       Tx("tV", AddrB, AccountOnChain, 6, 2) >>

\* world "replay": address A has one sweep in block 2 and 100 zero-value
\* transactions in block 1
LedgerReplay ==
    <<Tx("tX", AddrA, AccountOnChain, 5, 2)>> \o Fillers(1, 100, 1)

\* a transaction the explorer lists and the node does not know
Unknown(hash) == [Tx(hash, AddrA, AccountOnChain, 1, 3) EXCEPT !.onNode = FALSE]

\* world "dense": the first page of address A holds 12 positive-value
\* summaries among 88 zero-value ones; the 11th is a sweep (tQ).  The second
\* page holds a contract creation, a transfer to another account, a
\* transaction the node reports with value 0, and a sweep.  Address D has a
\* sweep (tU); for address E the explorer lists a value that is no integer.
LedgerDense ==
    << Filler(1, 3),
       Unknown("tM1"),
       [Tx("tP", AddrA, AccountOnChain, 1, 3) EXCEPT !.blockNumber = 0, !.blockHash = Null],
       Filler(2, 3),
       Unknown("tM2"), Unknown("tM3"), Unknown("tM4"), Unknown("tM5"),
       Filler(3, 3),
       Unknown("tM6"), Unknown("tM7"), Unknown("tM8"), Unknown("tM9"),
       Tx("tQ", AddrA, AccountOnChain, 8, 3),
       Unknown("tM10") >>
    \o Fillers(4, 88, 3)
    \o << Tx("tC", AddrA, Null, 1, 2),
          Tx("tN", AddrA, AddrOther, 1, 2),
          [Tx("tZ", AddrA, AccountOnChain, 0, 2) EXCEPT !.listed = <<"7">>],
          Tx("tX", AddrA, AccountOnChain, 5, 2),
          Filler(89, 2),
          Tx("tU", AddrD, AccountOnChain, 9, 2),
          [Tx("tB", AddrOther, AccountOnChain, 1, 2) EXCEPT !.listed = <<"1", ".", "5">>] >>

\* a transaction that pays an EIP-1559 fee: the node reports no gasPrice
Eip1559(t) == [t EXCEPT !.gasPrice = Undefined]

\* world "fees": every transaction of address B pays an EIP-1559 fee, and
\* each but the last also meets one of the earlier rejections: gA is not on
\* the node, gP is not mined, gC creates a contract, gN pays another
\* account, gZ has value 0 on the node, gS is older than order 3.  Address A
\* has a legacy sweep (gL, whose value the explorer lists differently) and a
\* legacy transfer to another account (gT).
LedgerFees ==
    << Eip1559([Tx("gA", AddrB, AccountOnChain, 1, 3) EXCEPT !.onNode = FALSE]),
       Eip1559([Tx("gP", AddrB, AccountOnChain, 1, 3) EXCEPT !.blockNumber = 0,
                                                             !.blockHash = Null]),
       Eip1559(Tx("gC", AddrB, Null, 1, 2)),
       Eip1559(Tx("gN", AddrB, AddrOther, 1, 2)),
       Eip1559([Tx("gZ", AddrB, AccountOnChain, 0, 2) EXCEPT !.listed = <<"7">>]),
       Eip1559(Tx("gE", AddrB, AccountOnChain, 4, 2)),
       Eip1559(Tx("gS", AddrB, AccountOnChain, 1, 1)),
       [Tx("gL", AddrA, AccountOnChain, 13, 2) EXCEPT !.gasPrice = 7, !.gasLimit = 21,
                                                      !.listed = <<"9">>],
       Tx("gT", AddrA, AddrOther, 1, 2) >>

Worlds == {"replay", "dense", "fees"}

ChainReplay == LedgerCommon \o LedgerReplay

ChainDense == LedgerCommon \o LedgerDense

ChainFees == LedgerFees

Ledger(w) ==
    CASE w = "dense" -> ChainDense
      [] w = "fees"  -> ChainFees
      [] OTHER       -> ChainReplay

---------------------------------------------------------------------------
(* The explorer (api.etherscan.io, module=account, action=txlist) *)

Min(a, b) == IF a < b THEN a ELSE b

\* one record of the explorer's result; `strings` are the keys it holds
\* as strings
Summary(t) ==
    [hash |-> t.hash, from |-> toLowerCase(t.from), to |-> toLowerCase(t.to),
     value |-> t.listed, strings |-> {"hash", "from", "to", "value"}]

\* the transactions of `address` in blocks >= startblock, newest first
\* (sort=desc): the ledger lists each address's transactions in that order
AccountTxs(w, address, startblock) ==
    SelectSeq(Ledger(w),
              LAMBDA t : /\ \/ toLowerCase(t.from) = toLowerCase(address)
                            \/ toLowerCase(t.to) = toLowerCase(address)
                         /\ t.listedBlock >= startblock)

\* ...&startblock=${startblock}&page=${page}&offset=${pageSize}&sort=desc:
\* the list the explorer's payload carries
TxListOf(w, address, startblock, page) ==
    LET all == AccountTxs(w, address, startblock)
        lo  == (page - 1) * pageSize + 1
        hi  == Min(page * pageSize, Len(all))
    IN  [type |-> "array",
         items |-> IF lo > hi THEN <<>>
                   ELSE [k \in 1..(hi - lo + 1) |-> Summary(all[lo + k - 1])]]

\* the queries the worker can make: the address and creation block of an
\* order, and a page up to the first one past the end of every list
Queries ==
    {<<w, o.depositAddress, o.createdAtBlockNumber, p>> :
        w \in Worlds, o \in InitialOrders \cup {Order2}, p \in 1..(Len(ChainDense) \div pageSize + 2)}

\* the explorer's answers, tabulated once
TxListTable == [q \in Queries |-> TxListOf(q[1], q[2], q[3], q[4])]

TxListPayload(w, address, startblock, page) ==
    TxListTable[<<w, address, startblock, page>>]

\* a payload whose records lack the value key
MalformedPayload ==
    [type |-> "array",
     items |-> <<[hash |-> "tX", from |-> AddrA, to |-> account, value |-> Null,
                  strings |-> {"hash", "from", "to"}]>>]

\* What the promise of axios.get resolves with, the `res` of line 138.
\* axios itself resolves with the response object that wraps the payload;
\* a response interceptor of the application (not part of this file) may
\* make it resolve with the list.  Both are behaviours of the environment.
Resolved(payload) ==
    IF axiosResolvesList THEN payload
    ELSE [type |-> "object", items |-> <<>>, data |-> payload]

\* accountTxListResultSchema.parse(res): an array of objects whose hash,
\* from, to and value are strings; anything else throws a ZodError
accountTxListResultSchema(res) ==
    IF /\ res.type = "array"
       /\ \A i \in DOMAIN res.items :
             {"hash", "from", "to", "value"} \subseteq res.items[i].strings
    THEN [ok |-> TRUE, txs |-> res.items]
    ELSE [ok |-> FALSE, txs |-> <<>>]

\* getEtherScanTxListForAddress(address, startblock, page) when the HTTP
\* request succeeds
getEtherScanTxListForAddress(w, address, startblock, page) ==
    accountTxListResultSchema(Resolved(TxListPayload(w, address, startblock, page)))

---------------------------------------------------------------------------
(* The node (nodeProvider) *)

NoTx == [onNode |-> FALSE]

\* the node's answer for a hash: the transaction, or null
TransactionOf(w, hash) ==
    LET at == {i \in DOMAIN Ledger(w) : Ledger(w)[i].hash = hash /\ Ledger(w)[i].onNode}
    IN  IF at = {} THEN NoTx ELSE Ledger(w)[CHOOSE i \in at : TRUE]

\* the hashes the explorer can list
Hashes == {ChainReplay[i].hash : i \in DOMAIN ChainReplay}
              \cup {ChainDense[i].hash : i \in DOMAIN ChainDense}
              \cup {ChainFees[i].hash : i \in DOMAIN ChainFees}

\* the node's answers, tabulated once
TransactionTable == [w \in Worlds |-> [h \in Hashes |-> TransactionOf(w, h)]]

\* nodeProvider.getTransaction(hash)
getTransaction(w, hash) == TransactionTable[w][hash]

\* nodeProvider.getBlock(number)
getBlock(number) == [number |-> number, timestamp |-> BlockTimestamp(number)]

---------------------------------------------------------------------------
(* The page filter of runScanByOrderId *)

\* the value strings the explorer lists
ListedValues == {ChainReplay[i].listed : i \in DOMAIN ChainReplay}
                    \cup {ChainDense[i].listed : i \in DOMAIN ChainDense}
                    \cup {ChainFees[i].listed : i \in DOMAIN ChainFees}
                    \cup {Null}

\* ethers.BigNumber.from on the listed values, tabulated once
BigNumberTable == [v \in ListedValues |-> BigNumberFrom(v)]

\* txs.filter(tx => ethers.BigNumber.from(tx.value).gt(0)) throws when a
\* value is no integer
FilterThrows(txs) == \E i \in DOMAIN txs : ~BigNumberTable[txs[i].value].ok

HasValue(tx) == BigNumberTable[tx.value].val > 0

\* faulty variant: the slice keeps one candidate too many
SliceOffByOne(txs) == SubSeq(txs, 1, Min(CandidateCap + 1, Len(txs)))

\* txs.slice(0, 10)
Slice(txs) == SubSeq(txs, 1, Min(CandidateCap, Len(txs)))

\* the candidates of a page: filter, then slice
Candidates(txs) == Slice(SelectSeq(txs, HasValue))

---------------------------------------------------------------------------
(* scanTxid *)

\* faulty variant: the gas price is looked at before the recipient and the value
scanTxidFeeFirst(tx) ==
    IF tx.from = Null THEN "AssertionError"
    ELSE IF tx.blockHash = Null THEN "BlockHashError"
    ELSE IF tx.gasPrice = Undefined THEN "UnsupportedFeeModel"
    ELSE IF tx.to = Null THEN "ContractCreation"
    ELSE IF toLowerCase(tx.to) # toLowerCase(account) THEN "NotASweep"
    ELSE IF tx.value = 0 THEN "ZeroValue"
    ELSE "ok"

\* faulty variant: the recipient is not compared with the sweep account
scanTxidAnyRecipient(tx) ==
    IF tx.from = Null THEN "AssertionError"
    ELSE IF tx.blockHash = Null THEN "BlockHashError"
    ELSE IF tx.to = Null THEN "ContractCreation"
    ELSE IF tx.value = 0 THEN "ZeroValue"
    ELSE IF tx.gasPrice = Undefined THEN "UnsupportedFeeModel"
    ELSE "ok"

\* the checks of scanTxid before its first await: what they end in
scanTxidChecks(tx) ==
    IF tx.from = Null THEN "AssertionError"
    ELSE IF tx.blockHash = Null THEN "BlockHashError"
    ELSE IF tx.to = Null THEN "ContractCreation"
    ELSE IF toLowerCase(tx.to) # toLowerCase(account) THEN "NotASweep"
    ELSE IF tx.value = 0 THEN "ZeroValue"
    ELSE IF tx.gasPrice = Undefined THEN "UnsupportedFeeModel"
    ELSE "ok"

ScanTxidThrows(outcome) ==
    outcome \in {"AssertionError", "BlockHashError", "UnsupportedFeeModel"}

\* faulty variant: the fee is left out of the total
TotalOfValue(tx) == tx.value

\* ns.sum(value, ns.times(gasLimit, gasPrice))
Total(tx) == tx.value + tx.gasLimit * tx.gasPrice

\* getEthereumNativeDepositUniqueId (./shared): a deterministic identifier
\* of (deposit method, transaction hash)
getEthereumNativeDepositUniqueId(method, hash) == <<method.id, hash>>

\* faulty variant: the identifier also depends on the order credited
UniqueIdPerOrder(order, tx) == <<nativeMethod.id, tx.hash, order.id>>

\* faulty variant: the identifier is derived from the order, not from the transaction
UniqueIdOfOrder(order, tx) == <<nativeMethod.id, order.id>>

\* the uniqueId argument of the credit call
UniqueIdArg(order, tx) == getEthereumNativeDepositUniqueId(nativeMethod, tx.hash)

\* the amount argument of the credit call
AmountArg(tx) == formatEther(Total(tx))

\* the arguments of graphQLClient.maybeInternalCreateDeposit
CreditArgs(order, tx) ==
    [orderId |-> order.id, txid |-> tx.hash,
     amount |-> AmountArg(tx), uniqueId |-> UniqueIdArg(order, tx)]

NoArgs == [orderId |-> 0, txid |-> "", amount |-> Null, uniqueId |-> <<>>]

\* the deposit service: a deposit is created unless one with the same
\* uniqueId exists; the answer says whether it was created
WasCredited(args) == ~\E d \in deposits : d.uniqueId = args.uniqueId

maybeInternalCreateDeposit(args) ==
    IF WasCredited(args) THEN deposits \cup {args} ELSE deposits

---------------------------------------------------------------------------
(* State of one task: the invocation of the callback given to queue.run *)

ScanIds == 1..MaxScans

\* `order` is the row the callback loaded when it started
IdleScan ==
    [pc |-> "idle", orderId |-> 0, order |-> NoOrder, currentPage |-> 1,
     requested |-> <<>>, mappers |-> <<>>, report |-> ""]

\* the invocation has returned or thrown
Ended(sc) == sc.pc \in {"Exhausted", "Aborted", "Threw"}

InitIn(w) ==
    /\ world = w
    /\ etherscanApiKey \in BOOLEAN
    /\ axiosResolvesList \in BOOLEAN
    /\ worker = "init"
    /\ orderTable = InitialOrders
    /\ scans = [s \in ScanIds |-> IdleScan]
    /\ deposits = {}
    /\ creditCalls = {}
    /\ nodeCalls = {}
    /\ failures = 0

Init == InitIn("replay")

InitDense == InitIn("dense")

InitFees == InitIn("fees")

\* faulty variant: the page loop goes on as soon as one mapper has resolved
SettleEarly(sc, i, m) ==
    LET ms == [sc.mappers EXCEPT ![i] = m]
    IN  IF sc.pc # "verify" THEN [sc EXCEPT !.mappers = ms]
        ELSE IF m.pc = "threw" THEN [sc EXCEPT !.mappers = ms, !.pc = "Threw"]
        ELSE [sc EXCEPT !.mappers = ms, !.pc = "fetch",
                        !.currentPage = sc.currentPage + 1]

\* the scan record after mapper i has settled as m: pMap rejects as soon as
\* one mapper rejects, and resolves when all have resolved; the page loop
\* then increments currentPage and goes round
Settle(sc, i, m) ==
    LET ms == [sc.mappers EXCEPT ![i] = m]
        allDone == \A j \in DOMAIN ms : ms[j].pc = "done"
    IN  IF sc.pc # "verify" THEN [sc EXCEPT !.mappers = ms]
        ELSE IF m.pc = "threw" THEN [sc EXCEPT !.mappers = ms, !.pc = "Threw"]
        ELSE IF allDone
             THEN [sc EXCEPT !.mappers = ms, !.pc = "fetch",
                             !.currentPage = sc.currentPage + 1]
             ELSE [sc EXCEPT !.mappers = ms]

Resolve(m, outcome) == [m EXCEPT !.pc = "done", !.outcome = outcome]

Reject(m, outcome) == [m EXCEPT !.pc = "threw", !.outcome = outcome]

NodeCall(s, method, hash) ==
    [scan |-> s, page |-> scans[s].currentPage, method |-> method, hash |-> hash]

---------------------------------------------------------------------------
(* Actions *)

\* faulty variant: the API key is not checked
RunScanWithoutKeyCheck ==
    /\ worker = "init"
    /\ worker' = "running"
    /\ UNCHANGED <<world, etherscanApiKey, axiosResolvesList, orderTable, scans,
                   deposits, creditCalls, nodeCalls, failures>>

\* runScanByOrderId up to queue.run: without an API key it logs
\* 'Etherscan not configured' and returns without consuming the queue
RunScanByOrderId ==
    /\ worker = "init"
    /\ worker' = IF etherscanApiKey THEN "running" ELSE "stopped"
    /\ UNCHANGED <<world, etherscanApiKey, axiosResolvesList, orderTable, scans,
                   deposits, creditCalls, nodeCalls, failures>>

\* order management creates order 2 and re-assigns deposit address A to it
ReassignAddress ==
    /\ Order2 \notin orderTable
    /\ orderTable' = {IF o.depositAddress = Order2.depositAddress
                      THEN [o EXCEPT !.depositAddress = Null] ELSE o : o \in orderTable}
                        \cup {Order2}
    /\ UNCHANGED <<world, etherscanApiKey, axiosResolvesList, worker, scans,
                   deposits, creditCalls, nodeCalls, failures>>

\* a producer puts an order id on the evmNativeConfirm queue
Enqueue(s, orderId) ==
    /\ scans[s].pc = "idle"
    /\ \A r \in ScanIds : r < s => scans[r].pc # "idle"
    /\ world # "replay" => s = 1
    /\ scans' = [scans EXCEPT ![s] = [IdleScan EXCEPT !.pc = "queued", !.orderId = orderId]]
    /\ UNCHANGED <<world, etherscanApiKey, axiosResolvesList, worker, orderTable,
                   deposits, creditCalls, nodeCalls, failures>>

\* faulty variant: the callback throws where the order or its address is missing
DeliverThrows(s) ==
    /\ worker = "running"
    /\ scans[s].pc = "queued"
    /\ LET order == findOneBy(scans[s].orderId)
       IN  scans' = [scans EXCEPT ![s] =
              IF order = NoOrder
              THEN [@ EXCEPT !.pc = "Threw", !.report = "Order not found"]
              ELSE IF order.depositAddress = Null
              THEN [@ EXCEPT !.pc = "Threw", !.order = order,
                             !.report = "Order has no deposit address"]
              ELSE [@ EXCEPT !.pc = "fetch", !.order = order, !.currentPage = 1]]
    /\ UNCHANGED <<world, etherscanApiKey, axiosResolvesList, worker, orderTable,
                   deposits, creditCalls, nodeCalls, failures>>

\* queue.run delivers the task: the callback looks the order up and enters
\* the page loop, or logs an error and returns
Deliver(s) ==
    /\ worker = "running"
    /\ scans[s].pc = "queued"
    /\ LET order == findOneBy(scans[s].orderId)
       IN  scans' = [scans EXCEPT ![s] =
              IF order = NoOrder
              THEN [@ EXCEPT !.pc = "Aborted", !.report = "Order not found"]
              ELSE IF order.depositAddress = Null
              THEN [@ EXCEPT !.pc = "Aborted", !.order = order,
                             !.report = "Order has no deposit address"]
              ELSE [@ EXCEPT !.pc = "fetch", !.order = order, !.currentPage = 1]]
    /\ UNCHANGED <<world, etherscanApiKey, axiosResolvesList, worker, orderTable,
                   deposits, creditCalls, nodeCalls, failures>>

\* the scan record after a page has been fetched and parsed: an empty page
\* ends the loop; otherwise the page is filtered and sliced and pMap starts
\* one mapper per candidate, each calling nodeProvider.getTransaction
AfterPage(sc, txs) ==
    LET req == [sc EXCEPT !.requested = Append(sc.requested, sc.currentPage)]
        cands == Candidates(txs)
    IN  IF Len(txs) = 0 THEN [req EXCEPT !.pc = "Exhausted"]
        ELSE IF FilterThrows(txs)
        THEN [req EXCEPT !.pc = "Threw", !.report = "uncaught: invalid BigNumber string"]
        ELSE IF Len(cands) = 0
        THEN [req EXCEPT !.currentPage = sc.currentPage + 1]
        ELSE [req EXCEPT !.pc = "verify",
                         !.mappers = [i \in DOMAIN cands |->
                                        [hash |-> cands[i].hash, pc |-> "getTransaction",
                                         args |-> NoArgs, outcome |-> ""]]]

\* faulty variant: the catch block logs the error and the loop goes on
AfterFetchErrorContinues(sc) ==
    [sc EXCEPT !.requested = Append(sc.requested, sc.currentPage),
               !.currentPage = sc.currentPage + 1, !.report = "Error fetching txs"]

\* the catch block of the page loop: log the error and return
AfterFetchError(sc) ==
    [sc EXCEPT !.requested = Append(sc.requested, sc.currentPage),
               !.pc = "Aborted", !.report = "Error fetching txs"]

\* one iteration of the page loop whose explorer request succeeds
FetchPage(s) ==
    /\ scans[s].pc = "fetch"
    /\ LET sc    == scans[s]
           got   == getEtherScanTxListForAddress(world, sc.order.depositAddress,
                                                 sc.order.createdAtBlockNumber,
                                                 sc.currentPage)
           next  == IF got.ok THEN AfterPage(sc, got.txs) ELSE AfterFetchError(sc)
       IN  /\ scans' = [scans EXCEPT ![s] = next]
           /\ nodeCalls' = nodeCalls \cup
                 IF next.pc = "verify"
                 THEN {NodeCall(s, "getTransaction", next.mappers[i].hash) :
                          i \in DOMAIN next.mappers}
                 ELSE {}
    /\ UNCHANGED <<world, etherscanApiKey, axiosResolvesList, worker, orderTable,
                   deposits, creditCalls, failures>>

\* one iteration of the page loop whose explorer request fails (axios
\* rejects) or answers with a malformed payload (the schema throws)
FetchPageFails(s) ==
    /\ scans[s].pc = "fetch"
    /\ failures < MaxFailures
    /\ failures' = failures + 1
    /\ \E res \in {[type |-> "rejected", items |-> <<>>], Resolved(MalformedPayload)} :
          /\ res.type = "rejected" \/ ~accountTxListResultSchema(res).ok
          /\ scans' = [scans EXCEPT ![s] = AfterFetchError(@)]
    /\ UNCHANGED <<world, etherscanApiKey, axiosResolvesList, worker, orderTable,
                   deposits, creditCalls, nodeCalls>>

\* nodeProvider.getTransaction answers mapper i
GetTransactionReturns(s, i) ==
    /\ i \in DOMAIN scans[s].mappers
    /\ scans[s].mappers[i].pc = "getTransaction"
    /\ LET m        == scans[s].mappers[i]
           ethersTx == getTransaction(world, m.hash)
       IN  IF ~ethersTx.onNode
           THEN /\ scans' = [scans EXCEPT ![s] = Settle(@, i, Resolve(m, "NotFound"))]
                /\ UNCHANGED nodeCalls
           ELSE IF ethersTx.blockNumber = 0
           THEN /\ scans' = [scans EXCEPT ![s] = Settle(@, i, Resolve(m, "Pending"))]
                /\ UNCHANGED nodeCalls
           ELSE /\ scans' = [scans EXCEPT ![s].mappers[i].pc = "getBlock"]
                /\ nodeCalls' = nodeCalls \cup {NodeCall(s, "getBlock", m.hash)}
    /\ UNCHANGED <<world, etherscanApiKey, axiosResolvesList, worker, orderTable,
                   deposits, creditCalls, failures>>

\* a nodeProvider call of mapper i rejects: the mapper rejects
NodeCallFails(s, i) ==
    /\ i \in DOMAIN scans[s].mappers
    /\ scans[s].mappers[i].pc \in {"getTransaction", "getBlock"}
    /\ failures < MaxFailures
    /\ failures' = failures + 1
    /\ scans' = [scans EXCEPT ![s] = Settle(@, i, Reject(scans[s].mappers[i], "NodeError"))]
    /\ UNCHANGED <<world, etherscanApiKey, axiosResolvesList, worker, orderTable,
                   deposits, creditCalls, nodeCalls>>

\* timestamp.getTime() < order.createdAt.getTime(), for the scanned order
IsStale(block, order) == block.timestamp * 1000 < order.createdAt

\* nodeProvider.getBlock answers mapper i: the staleness check, then
\* scanTxid up to its query for the order
GetBlockReturns(s, i) ==
    /\ i \in DOMAIN scans[s].mappers
    /\ scans[s].mappers[i].pc = "getBlock"
    /\ LET m        == scans[s].mappers[i]
           ethersTx == getTransaction(world, m.hash)
           block    == getBlock(ethersTx.blockNumber)
           outcome  == scanTxidChecks(ethersTx)
       IN  scans' = [scans EXCEPT ![s] =
              IF IsStale(block, scans[s].order) THEN Settle(@, i, Resolve(m, "Stale"))
              ELSE IF ScanTxidThrows(outcome) THEN Settle(@, i, Reject(m, outcome))
              ELSE IF outcome # "ok" THEN Settle(@, i, Resolve(m, outcome))
              ELSE [@ EXCEPT !.mappers[i].pc = "fetchOrder"]]
    /\ UNCHANGED <<world, etherscanApiKey, axiosResolvesList, worker, orderTable,
                   deposits, creditCalls, nodeCalls, failures>>

\* fetchOrderForAddress(tx.from) answers mapper i; with an order, scanTxid
\* issues the credit call
FetchOrderReturns(s, i) ==
    /\ i \in DOMAIN scans[s].mappers
    /\ scans[s].mappers[i].pc = "fetchOrder"
    /\ LET m        == scans[s].mappers[i]
           ethersTx == getTransaction(world, m.hash)
           rows     == fetchOrderForAddress(ethersTx.from)
       IN  IF rows = {}
           THEN /\ scans' = [scans EXCEPT ![s] = Settle(@, i, Resolve(m, "NoOrder"))]
                /\ UNCHANGED creditCalls
           ELSE \E order \in rows :
                /\ scans' = [scans EXCEPT ![s].mappers[i] =
                                [m EXCEPT !.pc = "credit",
                                          !.args = CreditArgs(order, ethersTx)]]
                /\ creditCalls' = creditCalls \cup
                      {[scan |-> s, page |-> scans[s].currentPage, order |-> order,
                        args |-> CreditArgs(order, ethersTx)]}
    /\ UNCHANGED <<world, etherscanApiKey, axiosResolvesList, worker, orderTable,
                   deposits, nodeCalls, failures>>

\* the deposit service applies the credit call of mapper i and answers
CreditReturns(s, i) ==
    /\ i \in DOMAIN scans[s].mappers
    /\ scans[s].mappers[i].pc = "credit"
    /\ LET m == scans[s].mappers[i]
       IN  /\ deposits' = maybeInternalCreateDeposit(m.args)
           /\ scans' = [scans EXCEPT ![s] =
                 Settle(@, i, Resolve(m, IF WasCredited(m.args) THEN "Credited"
                                         ELSE "NotCredited"))]
    /\ UNCHANGED <<world, etherscanApiKey, axiosResolvesList, worker, orderTable,
                   creditCalls, nodeCalls, failures>>

Next ==
    \/ RunScanByOrderId
    \/ ReassignAddress
    \/ \E s \in ScanIds, orderId \in OrderIds : Enqueue(s, orderId)
    \/ \E s \in ScanIds : Deliver(s)
    \/ \E s \in ScanIds : FetchPage(s)
    \/ \E s \in ScanIds : FetchPageFails(s)
    \/ \E s \in ScanIds : \E i \in DOMAIN scans[s].mappers : GetTransactionReturns(s, i)
    \/ \E s \in ScanIds : \E i \in DOMAIN scans[s].mappers : NodeCallFails(s, i)
    \/ \E s \in ScanIds : \E i \in DOMAIN scans[s].mappers : GetBlockReturns(s, i)
    \/ \E s \in ScanIds : \E i \in DOMAIN scans[s].mappers : FetchOrderReturns(s, i)
    \/ \E s \in ScanIds : \E i \in DOMAIN scans[s].mappers : CreditReturns(s, i)

Spec == Init /\ [][Next]_vars

SpecDense == InitDense /\ [][Next]_vars

SpecFees == InitFees /\ [][Next]_vars

\* a call that a mapper of scan s awaits returns: a node, order-table or
\* deposit-service call
Returns(s) ==
    \/ \E i \in 1..CandidateCap : GetTransactionReturns(s, i)
    \/ \E i \in 1..CandidateCap : GetBlockReturns(s, i)
    \/ \E i \in 1..CandidateCap : FetchOrderReturns(s, i)
    \/ \E i \in 1..CandidateCap : CreditReturns(s, i)

\* The worker where every call that is awaited returns in the end: weak
\* fairness of the mappers' calls and of the page request.  FetchPage(s) is
\* enabled exactly where scan s is at "fetch", so its weak fairness is
\* written out with that condition.
SpecLive ==
    /\ Init /\ [][Next]_vars
    /\ \A s \in ScanIds :
          /\ WF_vars(Returns(s))
          /\ []<>(scans[s].pc # "fetch") \/ []<><<FetchPage(s)>>_vars

---------------------------------------------------------------------------
(* Properties *)

\* the deposit records of a transaction
RecordsOf(hash) == {d \in deposits : d.txid = hash}

\* the credit call is with the deposit service, not yet answered
InFlight(c) ==
    \E i \in DOMAIN scans[c.scan].mappers :
        /\ scans[c.scan].mappers[i].pc = "credit"
        /\ scans[c.scan].mappers[i].args = c.args

\* the block timestamp of a transaction, in milliseconds
BlockTimeMs(hash) == BlockTimestamp(getTransaction(world, hash).blockNumber) * 1000

\* the list the explorer returned for page p of scan s
PageOf(s, p) ==
    TxListPayload(world, scans[s].order.depositAddress,
                  scans[s].order.createdAtBlockNumber, p).items

\* the hashes scan s has called getTransaction for while on page p
VerifiedOn(s, p) ==
    {c.hash : c \in {n \in nodeCalls : n.scan = s /\ n.page = p
                                        /\ n.method = "getTransaction"}}

\* C1 (idempotence under replay): however many scans have run, every
\* transaction whose credit call has been answered has exactly one deposit
\* record; a later scan of the same order adds no second one.
C1_Idempotence ==
    \A c \in creditCalls :
        ~InFlight(c) => Cardinality(RecordsOf(c.args.txid)) = 1

\* two scans of order 1 have both run to the empty page, both have called
\* the deposit service for tX, and there is one record
C1_Witness ==
    /\ scans[1].orderId = 1 /\ scans[1].pc = "Exhausted"
    /\ scans[2].orderId = 1 /\ scans[2].pc = "Exhausted"
    /\ \E c1, c2 \in creditCalls :
          c1.scan = 1 /\ c2.scan = 2 /\ c1.args.txid = "tX" /\ c2.args.txid = "tX"
    /\ Cardinality(RecordsOf("tX")) = 1

\* C2 (concurrent scans): in every interleaving of the scans, a transaction
\* has at most one deposit record, and every record was created by a credit
\* call carrying its uniqueId.
C2_ConcurrentScans ==
    /\ \A d1, d2 \in deposits : d1.txid = d2.txid => d1 = d2
    /\ \A d \in deposits : \E c \in creditCalls : c.args = d

\* two scans of the same order are both in their page loop, both have had
\* their credit call for the same transaction answered: one created the
\* record, the other did not
C2_Witness ==
    /\ scans[1].orderId = scans[2].orderId
    /\ scans[1].pc = "fetch" /\ scans[2].pc = "fetch"
    /\ \E i \in DOMAIN scans[1].mappers, j \in DOMAIN scans[2].mappers :
          /\ scans[1].mappers[i].hash = scans[2].mappers[j].hash
          /\ {scans[1].mappers[i].outcome, scans[2].mappers[j].outcome}
                = {"Credited", "NotCredited"}
          /\ Cardinality(RecordsOf(scans[1].mappers[i].hash)) = 1

\* C3 (staleness), as claimed: every credit call names an order that was
\* created no later than the block of the transaction.
C3_Staleness ==
    \A c \in creditCalls : BlockTimeMs(c.args.txid) >= c.order.createdAt

\* C4 (sender attribution): the order a credit call names is a row whose
\* deposit address is the sender of the transaction.
C4_SenderAttribution ==
    \A c \in creditCalls :
        /\ c.args.orderId = c.order.id
        /\ c.order.depositAddress = getTransaction(world, c.args.txid).from

\* a scan of order 1 has issued a credit call that names order 2, which
\* holds the sender's address by then
C4_Witness ==
    \E c \in creditCalls :
        /\ scans[c.scan].orderId = 1
        /\ c.args.orderId = 2
        /\ c.order.depositAddress = AddrA

\* C5 (pagination termination), as claimed: a scan whose page requests all
\* succeeded ends only on an empty page.
C5_PaginationTermination ==
    \A s \in ScanIds :
        (/\ Ended(scans[s])
         /\ scans[s].requested # <<>>
         /\ scans[s].report # "Error fetching txs")
        => /\ scans[s].pc = "Exhausted"
           /\ PageOf(s, scans[s].requested[Len(scans[s].requested)]) = <<>>

\* the i-th summary of a list has a positive value
Positive(txs, i) == BigNumberTable[txs[i].value].val > 0

\* the number of positive-value summaries before the i-th
RankOf(txs, i) == Cardinality({k \in 1..(i - 1) : Positive(txs, k)})

\* C6 (cap enforcement): the hashes a scan verifies on a page are those of
\* the positive-value summaries with fewer than 10 positive-value summaries
\* before them, at most 10, and the mappers hold them in the page's order.
C6_CapEnforcement ==
    \A s \in ScanIds :
        /\ \A p \in 1..scans[s].currentPage :
              /\ Cardinality(VerifiedOn(s, p)) <= 10
              /\ VerifiedOn(s, p) # {} =>
                    VerifiedOn(s, p) =
                       {PageOf(s, p)[i].hash : i \in
                           {k \in DOMAIN PageOf(s, p) :
                               Positive(PageOf(s, p), k) /\ RankOf(PageOf(s, p), k) < 10}}
        /\ scans[s].pc = "verify" =>
              LET txs == PageOf(s, scans[s].currentPage)
              IN  \A j \in DOMAIN scans[s].mappers :
                     \E i \in DOMAIN txs :
                        /\ Positive(txs, i)
                        /\ RankOf(txs, i) = j - 1
                        /\ txs[i].hash = scans[s].mappers[j].hash

\* a scan verifies a page that has more than 10 positive-value summaries:
\* 10 mappers run, the 11th positive summary (tQ) is left out
C6_Witness ==
    \E s \in ScanIds :
        /\ scans[s].pc = "verify"
        /\ Len(scans[s].mappers) = 10
        /\ Cardinality({k \in DOMAIN PageOf(s, scans[s].currentPage) :
                           Positive(PageOf(s, scans[s].currentPage), k)}) > 10
        /\ "tQ" \notin VerifiedOn(s, scans[s].currentPage)

\* C7 (failure isolation), as claimed: no invocation of the task callback
\* ends by throwing.
C7_FailureIsolation == \A s \in ScanIds : scans[s].pc # "Threw"

\* C8 (abort on page failure): once the error of fetching page k is
\* reported, the scan is Aborted, it has requested pages 1..k and no other,
\* it has verified and credited nothing on page k, none of its calls is
\* outstanding, and the records of its earlier credit calls are in place.
C8_AbortOnPageFailure ==
    \A s \in ScanIds :
        scans[s].report = "Error fetching txs" =>
            LET k == scans[s].currentPage
            IN  /\ scans[s].pc = "Aborted"
                /\ scans[s].requested = [p \in 1..k |-> p]
                /\ VerifiedOn(s, k) = {}
                /\ \A c \in creditCalls : c.scan = s => c.page < k
                /\ \A i \in DOMAIN scans[s].mappers : scans[s].mappers[i].pc = "done"
                /\ \A c \in creditCalls : c.scan = s => RecordsOf(c.args.txid) # {}

\* the request for page 2 fails after the scan has credited on page 1
C8_Witness ==
    \E s \in ScanIds :
        /\ scans[s].report = "Error fetching txs"
        /\ scans[s].currentPage = 2
        /\ \E c \in creditCalls : c.scan = s /\ c.page = 1 /\ c.args \in deposits

\* C9 (missing configuration): without an API key the worker reports the
\* configuration error and stops; no task is started, whatever is queued,
\* and no explorer, node or credit call is made.
C9_MissingConfiguration ==
    ~etherscanApiKey =>
        /\ worker \in {"init", "stopped"}
        /\ \A s \in ScanIds : scans[s].pc \in {"idle", "queued"}
                                /\ scans[s].requested = <<>>
        /\ nodeCalls = {}
        /\ creditCalls = {}
        /\ deposits = {}

\* the worker has reported the missing key and order ids were queued after
C9_Witness ==
    /\ ~etherscanApiKey
    /\ worker = "stopped"
    /\ \A s \in ScanIds : scans[s].pc = "queued"

\* C10 (dedup-key determinism): two credit calls for the same transaction
\* hash carry the same uniqueId, whatever scan, page or order they are for.
C10_DedupKeyDeterminism ==
    \A c1, c2 \in creditCalls :
        c1.args.txid = c2.args.txid => c1.args.uniqueId = c2.args.uniqueId

\* two scans have issued credit calls for the same transaction that name
\* different orders
C10_Witness ==
    \E c1, c2 \in creditCalls :
        /\ c1.scan # c2.scan
        /\ c1.args.txid = c2.args.txid
        /\ c1.args.orderId # c2.args.orderId

\* C11 (explorer client success path), as claimed: a page request that
\* succeeds with a list of well-formed records yields that list, in order,
\* and the scan does not abort on it.
C11_ExplorerSuccessPath ==
    [][\A s \in ScanIds :
          (/\ scans[s].pc = "fetch"
           /\ scans'[s] # scans[s]
           /\ failures' = failures)
          => /\ getEtherScanTxListForAddress(world, scans[s].order.depositAddress,
                                             scans[s].order.createdAtBlockNumber,
                                             scans[s].currentPage)
                  = [ok |-> TRUE, txs |-> PageOf(s, scans[s].currentPage)]
             /\ scans'[s].report # "Error fetching txs"]_vars

\* C12 (missing order or address): a task whose order id matches no order,
\* or whose order has no deposit address, ends by returning after the error
\* is logged; it has requested no page, started no verification and issued
\* no node call and no credit call.
C12_MissingOrderOrAddress ==
    \A s \in ScanIds :
        scans[s].report \in {"Order not found", "Order has no deposit address"} =>
            /\ scans[s].pc = "Aborted"
            /\ scans[s].requested = <<>>
            /\ scans[s].mappers = <<>>
            /\ \A n \in nodeCalls : n.scan # s
            /\ \A c \in creditCalls : c.scan # s
            /\ scans[s].report = "Order not found" => scans[s].order = NoOrder
            /\ scans[s].report = "Order has no deposit address"
                  => scans[s].order.id = scans[s].orderId /\ scans[s].order.depositAddress = Null

\* the first task named an order that does not exist; the second task ran
\* to the empty page and issued a credit call
C12_Witness ==
    /\ scans[1].report = "Order not found"
    /\ scans[2].pc = "Exhausted"
    /\ \E c \in creditCalls : c.scan = 2

\* C13 (credit goes to the scanned order), as claimed: every credit call a
\* scan issues carries the identifier of the order the scan was started for.
C13_CreditToScannedOrder ==
    \A c \in creditCalls : c.args.orderId = scans[c.scan].orderId

\* C14 (page ordering): a scan has requested pages 1, 2, 3, ... without gap
\* or repeat, every invocation from page 1; while it verifies page k it has
\* requested k pages, and when it is about to request the next page every
\* verification it started has completed.
C14_PageOrdering ==
    \A s \in ScanIds :
        /\ scans[s].requested = [p \in 1..Len(scans[s].requested) |-> p]
        /\ scans[s].pc = "verify" => Len(scans[s].requested) = scans[s].currentPage
        /\ scans[s].pc = "fetch" =>
              /\ Len(scans[s].requested) = scans[s].currentPage - 1
              /\ \A i \in DOMAIN scans[s].mappers : scans[s].mappers[i].pc = "done"
        /\ \A n \in nodeCalls : n.scan = s => n.page \in 1..Len(scans[s].requested)

\* a scan of an order was aborted by the failure of its second page request;
\* another scan of the same order went through pages 1, 2 and 3, verifying
\* the candidate of page 1 before it requested page 2
C14_Witness ==
    /\ scans[1].report = "Error fetching txs"
    /\ scans[1].requested = <<1, 2>>
    /\ scans[2].orderId = scans[1].orderId
    /\ scans[2].requested = <<1, 2, 3>>
    /\ scans[2].pc = "Exhausted"
    /\ \E n \in nodeCalls : n.scan = 2 /\ n.page = 1

\* C15 (verifier check order): a candidate whose node calls answered settles
\* with the first check that applies, in the order NotFound, Pending, Stale,
\* ContractCreation, NotASweep, ZeroValue, UnsupportedFeeModel; only the
\* last of these raises a failure; a candidate that any of them applies to
\* gets no credit call from the scan, and one that is absent or unmined gets
\* no block lookup.
C15_VerifierCheckOrder ==
    LET VerdictInOrder(tx, order) ==
            IF ~tx.onNode THEN "NotFound"
            ELSE IF tx.blockNumber = 0 THEN "Pending"
            ELSE IF BlockTimestamp(tx.blockNumber) * 1000 < order.createdAt THEN "Stale"
            ELSE IF tx.to = Null THEN "ContractCreation"
            ELSE IF toLowerCase(tx.to) # toLowerCase(account) THEN "NotASweep"
            ELSE IF tx.value <= 0 THEN "ZeroValue"
            ELSE IF tx.gasPrice = Undefined THEN "UnsupportedFeeModel"
            ELSE "Eligible"
    IN  \A s \in ScanIds : \A i \in DOMAIN scans[s].mappers :
            LET m == scans[s].mappers[i]
                v == VerdictInOrder(getTransaction(world, m.hash), scans[s].order)
            IN  /\ (m.pc \in {"done", "threw"} /\ m.outcome # "NodeError") =>
                      IF v = "Eligible"
                      THEN m.pc = "done" /\ m.outcome \in {"Credited", "NotCredited", "NoOrder"}
                      ELSE m.outcome = v /\ (m.pc = "threw" <=> v = "UnsupportedFeeModel")
                /\ m.pc \in {"fetchOrder", "credit"} => v = "Eligible"
                /\ v # "Eligible" =>
                      \A c \in creditCalls :
                         ~(c.scan = s /\ c.page = scans[s].currentPage /\ c.args.txid = m.hash)
                /\ v \in {"NotFound", "Pending"} =>
                      \A n \in nodeCalls :
                         ~(n.scan = s /\ n.method = "getBlock" /\ n.hash = m.hash)

\* the candidates of one page have settled with all seven outcomes, six of
\* them for transactions that have no legacy gas price either
C15_Witness ==
    \E s \in ScanIds :
        /\ {scans[s].mappers[i].outcome : i \in DOMAIN scans[s].mappers}
              = {"NotFound", "Pending", "Stale", "ContractCreation", "NotASweep",
                 "ZeroValue", "UnsupportedFeeModel"}
        /\ \A i \in DOMAIN scans[s].mappers :
              /\ scans[s].mappers[i].pc \in {"done", "threw"}
              /\ getTransaction(world, scans[s].mappers[i].hash).onNode =>
                    getTransaction(world, scans[s].mappers[i].hash).gasPrice = Undefined

\* the position of the decimal point in an amount
PointOf(s) == CHOOSE k \in DOMAIN s : s[k] = "."

\* the number of wei an amount in ether stands for (amounts below 1 ether)
weiOf(s) ==
    LET frac == SubSeq(s, PointOf(s) + 1, Len(s))
    IN  DecimalValue(frac \o Zeros(EtherDecimals - Len(frac)))

\* C16 (credited amount): the amount of every credit call stands for the
\* value of the transaction on the node plus gasLimit times gasPrice, and
\* for more than the value where the fee is not zero.
C16_CreditedAmount ==
    \A c \in creditCalls :
        LET tx == getTransaction(world, c.args.txid)
        IN  /\ SubSeq(c.args.amount, 1, PointOf(c.args.amount)) = <<"0", ".">>
            /\ weiOf(c.args.amount) = tx.value + tx.gasLimit * tx.gasPrice
            /\ tx.gasLimit * tx.gasPrice > 0 => weiOf(c.args.amount) > tx.value

\* a credit call for a sweep whose value the explorer lists differently
\* from the node, with a fee that makes the total end in a zero
C16_Witness ==
    \E c \in creditCalls :
        LET tx == getTransaction(world, c.args.txid)
        IN  /\ tx.listed # Decimal(tx.value)
            /\ tx.gasLimit * tx.gasPrice > 0
            /\ (tx.value + tx.gasLimit * tx.gasPrice) % 10 = 0
            /\ c.args \in deposits

\* C17 (eligibility invariant): every credit call is for a transaction the
\* node knows, that is mined, whose recipient is the sweep account whatever
\* the case of its letters, and whose value is strictly positive.
C17_Eligibility ==
    \A c \in creditCalls :
        LET tx == getTransaction(world, c.args.txid)
        IN  /\ tx.onNode
            /\ tx.blockNumber > 0
            /\ tx.to # Null
            /\ toLowerCase(tx.to) = toLowerCase(account)
            /\ tx.value > 0

\* a credit call for a sweep whose recipient is spelled in another case
\* than the configured account, issued by a scan that rejected a transfer to
\* another account on the same page
C17_Witness ==
    \E c \in creditCalls :
        /\ getTransaction(world, c.args.txid).to # account
        /\ \E i \in DOMAIN scans[c.scan].mappers :
              scans[c.scan].mappers[i].outcome = "NotASweep"

C19_ScanLiveness ==
    \A s \in ScanIds :
        (scans[s].pc \in {"fetch", "verify"})
            ~> (scans[s].pc \in {"Exhausted", "Aborted"} \/ failures > 0)

\* C20 (no credit after the scan has ended), as claimed: once an invocation
\* has returned or thrown, no further node call and no further credit call
\* is issued on its behalf.
C20_NoCallsAfterEnd ==
    [][\A s \in ScanIds :
          Ended(scans[s]) =>
             /\ {c \in creditCalls' : c.scan = s} = {c \in creditCalls : c.scan = s}
             /\ {n \in nodeCalls' : n.scan = s} = {n \in nodeCalls : n.scan = s}]_vars

=============================================================================
